---- MODULE Spec2Model ----
(***************************************************************************)
(* generate_pdf.py: a three-stage batch pipeline.                          *)
(*   Stage 1  Playwright loads index.html, mutates the DOM (page-break     *)
(*            marking, portfolio card expansion) and prints it to a PDF.   *)
(*   Stage 2  add_branded_footer draws a footer on every page and saves    *)
(*            through '<path>.tmp' + replace.                              *)
(*   Stage 3  screenshot_pages clears page_*.png and writes one PNG per    *)
(*            page.                                                        *)
(* Text (file names, page labels, script source) is modelled as sequences  *)
(* of one-character strings so that formatting and matching are computed.  *)
(***************************************************************************)
EXTENDS Integers, Sequences, FiniteSets, TLC

\* ------------------------------------------------------------------ bounds
\* pages the HTML renders to, in the whole-pipeline specification
MaxPages == 3
\* runs of the program in one behaviour (the first run plus re-runs)
MaxRuns == 3
\* pages of the document in the footer-only specification
MaxFooterPages == 11
\* pages of the document in the screenshot-only specification
MaxShotPages == 101
\* elements of the document in the marking-only specification
MaxElems == 3
\* characters of the inline script in the expansion-only specification
MaxLen == 6
\* portfolio cards of the document in the cards-only specification
MaxCards == 3

VARIABLES
    htmlExists,   \* index.html is present at HTML_PATH
    navTimesOut,  \* page.goto does not reach networkidle within the timeout
    html,         \* the document index.html holds
    htmlPages,    \* the number of pages Chromium lays that document out on
    dom,          \* the document loaded in the browser page
    marked,       \* result of the section-marking evaluate
    expanded,     \* result of the card-expansion evaluate
    pc,           \* position of the run in generate_pdf
    status,       \* "running", "done", "failed" (uncaught exception), "killed"
    run,          \* number of the current run of the program
    log,          \* stage markers printed by the current run, plus "error"
    fs,           \* the files at OUTPUT_PATH ("pdf") and OUTPUT_PATH + ".tmp"
    dir,          \* names of the files in SCREENSHOT_DIR
    doc,          \* pages of the fitz document open in memory
    total,        \* add_branded_footer: len(doc), read once before the loop
    count,        \* screenshot_pages: len(doc)
    i             \* loop index of the page loops

vars == <<htmlExists, navTimesOut, html, htmlPages, dom, marked, expanded, pc,
          status, run, log, fs, dir, doc, total, count, i>>

envVars == <<htmlExists, navTimesOut, html, htmlPages>>

\* -------------------------------------------------------------------- text
Digit(d) ==
    CASE d = 0 -> "0" [] d = 1 -> "1" [] d = 2 -> "2" [] d = 3 -> "3"
      [] d = 4 -> "4" [] d = 5 -> "5" [] d = 6 -> "6" [] d = 7 -> "7"
      [] d = 8 -> "8" [] d = 9 -> "9"

\* str(n) for n >= 0: the decimal digits, most significant first
RECURSIVE Digits(_)
Digits(n) ==
    IF n < 10 THEN <<Digit(n)>> ELSE Digits(n \div 10) \o <<Digit(n % 10)>>

\* the format spec 02d: left-padded with zeros to a width of at least two
RECURSIVE ZeroPad2(_)
ZeroPad2(ds) == IF Len(ds) < 2 THEN ZeroPad2(<<"0">> \o ds) ELSE ds

PagePrefix == <<"p", "a", "g", "e", "_">>
PngSuffix == <<".", "p", "n", "g">>

ShotNameZeroBased(k) == PagePrefix \o ZeroPad2(Digits(k)) \o PngSuffix

\* f"page_{i + 1:02d}.png", i the 0-based page index
ShotName(k) == PagePrefix \o ZeroPad2(Digits(k + 1)) \o PngSuffix

\* out_dir.glob("page_*.png"): the names with that prefix and that suffix
GlobMatch(name) ==
    /\ Len(name) >= Len(PagePrefix) + Len(PngSuffix)
    /\ SubSeq(name, 1, Len(PagePrefix)) = PagePrefix
    /\ SubSeq(name, Len(name) - Len(PngSuffix) + 1, Len(name)) = PngSuffix

\* f"Page {i + 1} of {total}"
PageLabel(k, n) ==
    <<"P", "a", "g", "e", " ">> \o Digits(k + 1) \o <<" ", "o", "f", " ">>
        \o Digits(n)

LeftText ==
    <<"Inkline + Attention Strategy  .  Rideau Hall Foundation Website Consolidation  .  Confidential">>

\* f"Version: {version_ts}  .  ": the time stamp is whatever the clock says
VersionPrefix == <<"Version: ", "<timestamp>", "  .  ">>

\* ------------------------------------------------------------ PDF documents
\* A page as Chromium prints it: its position in the layout, nothing drawn.
BlankPage(k) == [id |-> k, ops |-> <<>>]

RenderedPages(n) == [k \in 1..n |-> BlankPage(k)]

DrawRect(fill) == [op |-> "rect", text |-> <<>>, color |-> fill]
InsertText(text, color) == [op |-> "text", text |-> text, color |-> color]

\* What one iteration of the add_branded_footer loop draws on doc[k]: the
\* footer strip, the left text, and the right text as version prefix + page
\* label.
FooterOps(k, n) ==
    << DrawRect("BLACK"),
       InsertText(LeftText, "GREY_MED"),
       InsertText(VersionPrefix, "GREY_MED"),
       InsertText(PageLabel(k, n), "CERULEAN") >>

\* the document after the loop body ran for the 0-based index k
DrawFooterOnNewPage(d, k, n) ==
    LET at == k + 1
        extra == [id |-> 0, ops |-> FooterOps(k, n)]
    IN  SubSeq(d, 1, at) \o <<extra>> \o SubSeq(d, at + 1, Len(d))

DrawFooterZeroBased(d, k, n) ==
    [d EXCEPT ![k + 1].ops = @ \o
        << DrawRect("BLACK"),
           InsertText(LeftText, "GREY_MED"),
           InsertText(VersionPrefix, "GREY_MED"),
           InsertText(PageLabel(k - 1, n), "CERULEAN") >>]

DrawFooterOneRightText(d, k, n) ==
    [d EXCEPT ![k + 1].ops = @ \o
        << DrawRect("BLACK"),
           InsertText(LeftText, "GREY_MED"),
           InsertText(VersionPrefix \o PageLabel(k, n), "GREY_MED") >>]

DrawFooter(d, k, n) == [d EXCEPT ![k + 1].ops = @ \o FooterOps(k, n)]

\* ------------------------------------------------------------------ files
Absent == [state |-> "absent", pages |-> <<>>]
Partial == [state |-> "partial", pages |-> <<>>]
Complete(pages) == [state |-> "complete", pages |-> pages]

PdfPath == "pdf"

\* tmp_out = str(pdf_path) + ".tmp"
TmpOutInPlace == PdfPath

TmpOut == "tmp"

\* Path(src).replace(dst): one rename; the source name is gone afterwards
ReplaceByCopy(f, src, dst) == [f EXCEPT ![dst] = f[src]]

Replace(f, src, dst) ==
    IF src = dst THEN f ELSE [f EXCEPT ![dst] = f[src], ![src] = Absent]

\* -------------------------------------------------------------- the document
\* An element that can be a page-break target: its id ("" for none), its
\* tag, whether its style attribute contains "linear-gradient", its classes.
Elem(id, tag, gradient) ==
    [id |-> id, tag |-> tag, gradient |-> gradient, classes |-> {}]

SectionBreak == "pdf-section-break"

\* const breakIds = [...]
BreakIds ==
    <<"approach", "ia", "seo", "considerations", "scope", "effort", "company",
      "next-steps">>

Min(S) == CHOOSE x \in S : \A y \in S : x <= y

\* document.getElementById(id): the first element in document order with
\* that id; 0 stands for null
GetElementById(secs, id) ==
    LET hits == {k \in 1..Len(secs) : secs[k].id = id}
    IN  IF hits = {} THEN 0 ELSE Min(hits)

\* document.querySelector('section[style*="linear-gradient"]')
QueryGradientSection(secs) ==
    LET hits == {k \in 1..Len(secs) :
                    secs[k].tag = "section" /\ secs[k].gradient}
    IN  IF hits = {} THEN 0 ELSE Min(hits)

ClassListAdd(secs, k, c) == [secs EXCEPT ![k].classes = @ \cup {c}]

\* breakIds.forEach(id => { ... }), from the j-th id on
RECURSIVE MarkBreakIds(_, _, _)
MarkBreakIds(secs, j, m) ==
    IF j > Len(BreakIds)
    THEN [sections |-> secs, marked |-> m]
    ELSE LET el == GetElementById(secs, BreakIds[j])
         IN  IF el # 0
             THEN MarkBreakIds(ClassListAdd(secs, el, SectionBreak), j + 1, m + 1)
             ELSE MarkBreakIds(secs, j + 1, m)

MarkGradientUnguarded(r) ==
    LET nextSection == QueryGradientSection(r.sections)
    IN  IF nextSection # 0
        THEN [sections |-> ClassListAdd(r.sections, nextSection, SectionBreak),
              marked |-> r.marked + 1]
        ELSE r

\* "Also break before the next-steps gradient section"
MarkGradient(r) ==
    LET nextSection == QueryGradientSection(r.sections)
    IN  IF nextSection # 0 /\ SectionBreak \notin r.sections[nextSection].classes
        THEN [sections |-> ClassListAdd(r.sections, nextSection, SectionBreak),
              marked |-> r.marked + 1]
        ELSE r

\* the whole section-marking evaluate: the document after it and its result
MarkSectionBreaks(secs) == MarkGradient(MarkBreakIds(secs, 1, 0))

\* ---------------------------------------------------- portfolioData extraction
\* Script source is a sequence over four characters: "D" stands for the text
\* 'const portfolioData = ' (and for any other plain text), "{" and "}" are
\* braces, "q" is a string quote.
Alphabet == {"D", "{", "}", "q"}

\* 'const portfolioData = {'
Marker == <<"D", "{">>

\* txt.indexOf(pat, from), 1-based; 0 stands for -1
IndexOf(txt, pat, from) ==
    LET hits == {p \in from..(Len(txt) - Len(pat) + 1) :
                    SubSeq(txt, p, p + Len(pat) - 1) = pat}
    IN  IF hits = {} THEN 0 ELSE Min(hits)

\* the for loop over i from startIdx: the value of endIdx after it
RECURSIVE BraceLoop(_, _, _, _)
BraceLoop(txt, p, braceCount, startIdx) ==
    IF p > Len(txt)
    THEN startIdx
    ELSE LET up == IF txt[p] = "{" THEN braceCount + 1 ELSE braceCount
             dn == IF txt[p] = "}" THEN up - 1 ELSE up
         IN  IF dn = 0 THEN p ELSE BraceLoop(txt, p + 1, dn, startIdx)

\* startIdx for a script that contains the marker
StartIdx(txt) == IndexOf(txt, <<"{">>, IndexOf(txt, Marker, 1))

EndIdx(txt) == BraceLoop(txt, StartIdx(txt), 0, StartIdx(txt))

ObjStrShort(txt) == SubSeq(txt, StartIdx(txt), EndIdx(txt) - 1)

\* txt.substring(startIdx, endIdx + 1)
ObjStr(txt) == SubSeq(txt, StartIdx(txt), EndIdx(txt))

\* eval('(' + objStr + ')') does not throw: objStr is one object literal,
\* a "{", then plain text, string literals (quote to quote) and nested
\* literals, then the matching "}" as its last character.
RECURSIVE ScanLiteral(_, _, _, _)
ScanLiteral(s, p, depth, inStr) ==
    IF p > Len(s) THEN FALSE
    ELSE IF inStr THEN ScanLiteral(s, p + 1, depth, s[p] # "q")
    ELSE IF s[p] = "q" THEN ScanLiteral(s, p + 1, depth, TRUE)
    ELSE IF s[p] = "{" THEN ScanLiteral(s, p + 1, depth + 1, FALSE)
    ELSE IF s[p] = "}"
         THEN IF depth = 1 THEN p = Len(s)
              ELSE ScanLiteral(s, p + 1, depth - 1, FALSE)
    ELSE ScanLiteral(s, p + 1, depth, FALSE)

EvalOk(s) == Len(s) >= 1 /\ s[1] = "{" /\ ScanLiteral(s, 2, 1, FALSE)

Null == [null |-> TRUE, table |-> <<>>]

\* the for (const s of scripts) loop from the j-th inline script on: the
\* value of portfolioData after it. table is what the literal evaluates to.
RECURSIVE ExtractPortfolioData(_, _, _)
ExtractPortfolioData(scripts, table, j) ==
    IF j > Len(scripts) THEN Null
    ELSE IF IndexOf(scripts[j], Marker, 1) = 0
         THEN ExtractPortfolioData(scripts, table, j + 1)
    ELSE IF EvalOk(ObjStr(scripts[j]))
         THEN [null |-> FALSE, table |-> table]
         ELSE Null

\* ------------------------------------------------------------ card expansion
\* A .portfolio-card: whether it has a .portfolio-name child and its text,
\* whether it has a .portfolio-info child and what was appended to it.
Card(nameEl, name, infoEl) ==
    [nameEl |-> nameEl, name |-> name, infoEl |-> infoEl, classes |-> {},
     info |-> <<>>]

IsSpace(c) == c = " "

\* String.prototype.trim
RECURSIVE TrimLeft(_)
TrimLeft(t) ==
    IF t # <<>> /\ IsSpace(Head(t)) THEN TrimLeft(Tail(t)) ELSE t

RECURSIVE TrimRight(_)
TrimRight(t) ==
    IF t # <<>> /\ IsSpace(t[Len(t)])
    THEN TrimRight(SubSeq(t, 1, Len(t) - 1)) ELSE t

Trim(t) == TrimRight(TrimLeft(t))

Div(cls, text) == [className |-> cls, text |-> text]

\* property names every object inherits from Object.prototype ("constructor",
\* "toString", ...): one of them stands for all
InheritedNames == { <<"constructor">> }

\* what such a member yields for .narrative, .relevance and .refs: undefined
InheritedMember == [narrative |-> "", relevance |-> "", refs |-> <<>>]

\* portfolioData[name]: the entry under an own key, else an inherited member
\* of the object, else undefined; found says whether the value is truthy
Lookup(table, name) ==
    IF name \in DOMAIN table THEN [found |-> TRUE, data |-> table[name]]
    ELSE IF name \in InheritedNames
         THEN [found |-> TRUE, data |-> InheritedMember]
    ELSE [found |-> FALSE, data |-> InheritedMember]

\* the body of cards.forEach for one card: the card after it and whether
\* count was incremented
ExpandCard(card, portfolioData) ==
    LET name == Trim(card.name)
        same == [card |-> card, counted |-> FALSE]
    IN  IF ~card.nameEl THEN same
        ELSE IF ~Lookup(portfolioData.table, name).found THEN same
        ELSE LET data == Lookup(portfolioData.table, name).data
                 cls == [card EXCEPT !.classes = @ \cup {"pdf-expanded"}]
                 refs == IF data.refs # <<>>
                         THEN <<Div("pdf-refs", data.refs)>> ELSE <<>>
             IN  IF ~card.infoEl THEN [card |-> cls, counted |-> FALSE]
                 ELSE [card |-> [cls EXCEPT !.info = @ \o
                                   << Div("pdf-narrative", data.narrative),
                                      Div("pdf-relevance-label",
                                          "Relevance to RHF Project"),
                                      Div("pdf-relevance", data.relevance) >>
                                   \o refs],
                       counted |-> TRUE]

RECURSIVE CountTrue(_)
CountTrue(bs) ==
    IF bs = <<>> THEN 0
    ELSE (IF Head(bs) THEN 1 ELSE 0) + CountTrue(Tail(bs))

\* the whole card-expansion evaluate: the cards after it and its result
ExpandCards(d) ==
    LET portfolioData == ExtractPortfolioData(d.scripts, d.table, 1)
        out == [k \in 1..Len(d.cards) |-> ExpandCard(d.cards[k], portfolioData)]
    IN  IF portfolioData.null
        THEN [cards |-> d.cards, count |-> 0]
        ELSE [cards |-> [k \in 1..Len(d.cards) |-> out[k].card],
              count |-> CountTrue([k \in 1..Len(d.cards) |-> out[k].counted])]

\* ------------------------------------------------------------------ inputs
NoDom == [sections |-> <<>>, scripts |-> <<>>, cards |-> <<>>, table |-> <<>>,
          css |-> FALSE]

Entry(refs) == [narrative |-> "narrative", relevance |-> "relevance", refs |-> refs]

\* a lookup table with the one key "a"
TableA(refs) == [name \in {<<"a">>} |-> Entry(refs)]

AllSections ==
    << Elem("hero", "section", FALSE), Elem("approach", "section", FALSE),
       Elem("ia", "section", FALSE), Elem("seo", "section", FALSE),
       Elem("considerations", "section", FALSE), Elem("scope", "section", FALSE),
       Elem("effort", "section", FALSE), Elem("company", "section", FALSE),
       Elem("next-steps", "section", TRUE) >>

\* the document the script is written for
FullDoc ==
    [sections |-> AllSections,
     scripts |-> << <<"D", "{", "{", "}", "}">> >>,
     cards |-> << Card(TRUE, <<" ", "a", " ">>, TRUE) >>,
     table |-> TableA(<<"RFP 1">>),
     css |-> FALSE]

\* documents with something the script looks for missing
NoSectionsDoc == [FullDoc EXCEPT !.sections = << Elem("hero", "section", FALSE) >>]
NoDataDoc == [FullDoc EXCEPT !.scripts = << <<"D">> >>, !.table = <<>>]
BareCardDoc == [FullDoc EXCEPT !.cards = << Card(FALSE, <<>>, FALSE) >>]

Documents == {FullDoc, NoSectionsDoc, NoDataDoc, BareCardDoc}

\* names SCREENSHOT_DIR may hold before a run: a stale screenshot beyond the
\* page count, an unpadded one, and two files that are no screenshots
InitialNames ==
    { <<"p", "a", "g", "e", "_", "0", "7", ".", "p", "n", "g">>,
      <<"p", "a", "g", "e", "_", "1", ".", "p", "n", "g">>,
      <<"n", "o", "t", "e", "s", ".", "t", "x", "t">>,
      <<"p", "a", "g", "e", "_", "0", "1", ".", "p", "n", "g", ".", "b", "a", "k">> }

Paths == {PdfPath, "tmp"}

\* ------------------------------------------------------------------- state
Init ==
    /\ htmlExists \in BOOLEAN
    /\ navTimesOut \in BOOLEAN
    /\ html \in Documents
    /\ htmlPages \in 1..MaxPages
    /\ dom = NoDom
    /\ marked = 0
    /\ expanded = 0
    /\ pc = "start"
    /\ status = "running"
    /\ run = 1
    /\ log = <<>>
    /\ fs = [p \in Paths |-> Absent]
    /\ dir \in SUBSET InitialNames
    /\ doc = <<>>
    /\ total = 0
    /\ count = 0
    /\ i = 0

Running(at) == status = "running" /\ pc = at

\* the process ends: what it held in memory is gone, the files stay
ProcessExit ==
    /\ dom' = NoDom
    /\ doc' = <<>>
    /\ marked' = 0
    /\ expanded' = 0
    /\ total' = 0
    /\ count' = 0
    /\ i' = 0
    /\ UNCHANGED <<fs, dir, run, envVars>>

NextStage == IF "S3" \in {log[k] : k \in 1..Len(log)} THEN "final"
             ELSE IF "S2" \in {log[k] : k \in 1..Len(log)} THEN "shots"
             ELSE "footer"

SwallowError ==
    /\ log' = Append(log, "error")
    /\ pc' = NextStage
    /\ UNCHANGED <<status, dom, doc, marked, expanded, total, count, i, fs, dir,
                   run, envVars>>

\* an exception nobody catches: traceback, and the process ends
Raise ==
    /\ log' = Append(log, "error")
    /\ status' = "failed"
    /\ pc' = pc
    /\ ProcessExit

\* ----------------------------------------------------------------- Stage 1
Begin ==
    /\ Running("start")
    /\ log' = Append(log, "S1")
    /\ pc' = "goto"
    /\ UNCHANGED <<status, dom, doc, marked, expanded, total, count, i, fs, dir,
                   run, envVars>>

GotoFailsContinue ==
    /\ Running("goto")
    /\ ~htmlExists \/ navTimesOut
    /\ dom' = NoDom
    /\ pc' = "prepare"
    /\ UNCHANGED <<status, log, doc, marked, expanded, total, count, i, fs, dir,
                   run, envVars>>

\* page.goto raises: net::ERR_FILE_NOT_FOUND for a missing file, TimeoutError
\* when networkidle is not reached in time
GotoFails ==
    /\ Running("goto")
    /\ ~htmlExists \/ navTimesOut
    /\ Raise

Goto ==
    /\ Running("goto")
    /\ htmlExists /\ ~navTimesOut
    /\ dom' = html
    /\ pc' = "prepare"
    /\ UNCHANGED <<status, log, doc, marked, expanded, total, count, i, fs, dir,
                   run, envVars>>

Prepare ==
    /\ Running("prepare")
    /\ dom' = [dom EXCEPT !.css = TRUE]
    /\ pc' = "mark"
    /\ UNCHANGED <<status, log, doc, marked, expanded, total, count, i, fs, dir,
                   run, envVars>>

MarkSections ==
    /\ Running("mark")
    /\ LET r == MarkSectionBreaks(dom.sections)
       IN  /\ dom' = [dom EXCEPT !.sections = r.sections]
           /\ marked' = r.marked
    /\ pc' = "expand"
    /\ UNCHANGED <<status, log, doc, expanded, total, count, i, fs, dir, run,
                   envVars>>

ExpandPortfolio ==
    /\ Running("expand")
    /\ LET r == ExpandCards(dom)
       IN  /\ dom' = [dom EXCEPT !.cards = r.cards]
           /\ expanded' = r.count
    /\ pc' = "render"
    /\ UNCHANGED <<status, log, doc, marked, total, count, i, fs, dir, run,
                   envVars>>

RenderBegin ==
    /\ Running("render")
    /\ fs' = [fs EXCEPT ![PdfPath] = Partial]
    /\ pc' = "render_write"
    /\ UNCHANGED <<status, log, dom, doc, marked, expanded, total, count, i, dir,
                   run, envVars>>

RenderEnd ==
    /\ Running("render_write")
    /\ fs' = [fs EXCEPT ![PdfPath] = Complete(RenderedPages(htmlPages))]
    /\ dom' = NoDom
    /\ log' = Append(log, "E1")
    /\ pc' = "footer"
    /\ UNCHANGED <<status, doc, marked, expanded, total, count, i, dir, run,
                   envVars>>

\* ----------------------------------------------------------------- Stage 2
FooterOpen ==
    /\ Running("footer")
    /\ log' = Append(log, "S2")
    /\ doc' = fs[PdfPath].pages
    /\ total' = Len(fs[PdfPath].pages)
    /\ i' = 0
    /\ pc' = "footer_loop"
    /\ UNCHANGED <<status, dom, marked, expanded, count, fs, dir, run, envVars>>

FooterPage ==
    /\ Running("footer_loop")
    /\ i < total
    /\ doc' = DrawFooter(doc, i, total)
    /\ i' = i + 1
    /\ UNCHANGED <<status, log, pc, dom, marked, expanded, total, count, fs, dir,
                   run, envVars>>

FooterSaveBegin ==
    /\ Running("footer_loop")
    /\ ~(i < total)
    /\ fs' = [fs EXCEPT ![TmpOut] = Partial]
    /\ pc' = "footer_save"
    /\ UNCHANGED <<status, log, dom, doc, marked, expanded, total, count, i, dir,
                   run, envVars>>

FooterSaveFails ==
    /\ Running("footer_save")
    /\ Raise

FooterSaveEnd ==
    /\ Running("footer_save")
    /\ fs' = [fs EXCEPT ![TmpOut] = Complete(doc)]
    /\ doc' = <<>>
    /\ pc' = "footer_replace"
    /\ UNCHANGED <<status, log, dom, marked, expanded, total, count, i, dir, run,
                   envVars>>

FooterReplace ==
    /\ Running("footer_replace")
    /\ fs' = Replace(fs, TmpOut, PdfPath)
    /\ log' = Append(log, "E2")
    /\ pc' = "shots"
    /\ UNCHANGED <<status, dom, doc, marked, expanded, total, count, i, dir, run,
                   envVars>>

\* ----------------------------------------------------------------- Stage 3
ShotsBegin ==
    /\ Running("shots")
    /\ log' = Append(log, "S3")
    /\ pc' = "shots_unlink"
    /\ UNCHANGED <<status, dom, doc, marked, expanded, total, count, i, fs, dir,
                   run, envVars>>

ShotsUnlink ==
    /\ Running("shots_unlink")
    /\ \E f \in dir :
          /\ GlobMatch(f)
          /\ dir' = dir \ {f}
    /\ UNCHANGED <<status, log, pc, dom, doc, marked, expanded, total, count, i,
                   fs, run, envVars>>

ShotsOpen ==
    /\ Running("shots_unlink")
    /\ ~(\E f \in dir : GlobMatch(f))
    /\ doc' = fs[PdfPath].pages
    /\ count' = Len(fs[PdfPath].pages)
    /\ i' = 0
    /\ pc' = "shots_loop"
    /\ UNCHANGED <<status, log, dom, marked, expanded, total, fs, dir, run,
                   envVars>>

ShotsSave ==
    /\ Running("shots_loop")
    /\ i < count
    /\ dir' = dir \cup {ShotName(i)}
    /\ i' = i + 1
    /\ UNCHANGED <<status, log, pc, dom, doc, marked, expanded, total, count, fs,
                   run, envVars>>

ShotsClose ==
    /\ Running("shots_loop")
    /\ ~(i < count)
    /\ doc' = <<>>
    /\ log' = Append(log, "E3")
    /\ pc' = "final"
    /\ UNCHANGED <<status, dom, marked, expanded, total, count, i, fs, dir, run,
                   envVars>>

Final ==
    /\ Running("final")
    /\ status' = "done"
    /\ UNCHANGED <<log, pc, dom, doc, marked, expanded, total, count, i, fs, dir,
                   run, envVars>>

\* ------------------------------------------------------- the world outside
\* the process is killed (Ctrl-C, power loss) at whatever step it is at
Interrupt ==
    /\ status = "running"
    /\ status' = "killed"
    /\ UNCHANGED <<log, pc>>
    /\ ProcessExit

\* the program is run again from the start
Restart ==
    /\ status \in {"killed", "failed"}
    /\ run < MaxRuns
    /\ run' = run + 1
    /\ status' = "running"
    /\ pc' = "start"
    /\ log' = <<>>
    /\ UNCHANGED <<dom, doc, marked, expanded, total, count, i, fs, dir, envVars>>

Next ==
    \/ Begin \/ GotoFails \/ Goto \/ Prepare \/ MarkSections \/ ExpandPortfolio
    \/ RenderBegin \/ RenderEnd
    \/ FooterOpen \/ FooterPage \/ FooterSaveBegin \/ FooterSaveFails
    \/ FooterSaveEnd \/ FooterReplace
    \/ ShotsBegin \/ ShotsUnlink \/ ShotsOpen \/ ShotsSave \/ ShotsClose \/ Final
    \/ Interrupt \/ Restart

Spec == Init /\ [][Next]_vars

\* ------------------------------------------- the stages on their own inputs
SeqsUpTo(S, n) == UNION {[1..k -> S] : k \in 0..n}

\* the document add_branded_footer leaves for a layout of n pages
FooteredPages(n) == [k \in 1..n |-> [id |-> k, ops |-> FooterOps(k - 1, n)]]

\* the state generate_pdf is in when it reaches the given position, for the
\* given files, directory and loaded document
StateAt(at, printed, files, names, loaded) ==
    /\ htmlExists = TRUE
    /\ navTimesOut = FALSE
    /\ html = loaded
    /\ dom = loaded
    /\ marked = 0
    /\ expanded = 0
    /\ pc = at
    /\ status = "running"
    /\ run = 1
    /\ log = printed
    /\ fs = files
    /\ dir = names
    /\ doc = <<>>
    /\ total = 0
    /\ count = 0
    /\ i = 0

\* add_branded_footer on every PDF of 1..MaxFooterPages pages
InitFooter ==
    /\ htmlPages \in 1..MaxFooterPages
    /\ StateAt("footer", <<"S1", "E1">>,
               [p \in Paths |-> IF p = PdfPath
                                THEN Complete(RenderedPages(htmlPages))
                                ELSE Absent],
               {}, NoDom)

NextFooter ==
    \/ FooterOpen \/ FooterPage \/ FooterSaveBegin \/ FooterSaveEnd
    \/ FooterReplace

SpecFooter == InitFooter /\ [][NextFooter]_vars

\* screenshot_pages on every footered PDF of 1..MaxShotPages pages and every
\* directory content
InitShots ==
    /\ htmlPages \in 1..MaxShotPages
    /\ \E names \in SUBSET InitialNames :
          StateAt("shots", <<"S1", "E1", "S2", "E2">>,
                  [p \in Paths |-> IF p = PdfPath
                                   THEN Complete(FooteredPages(htmlPages))
                                   ELSE Absent],
                  names, NoDom)

NextShots == ShotsBegin \/ ShotsUnlink \/ ShotsOpen \/ ShotsSave \/ ShotsClose

SpecShots == InitShots /\ [][NextShots]_vars

\* the section-marking evaluate on every document of up to MaxElems elements
ElemKinds ==
    {Elem(id, tag, g) : id \in {"approach", "next-steps", "hero", ""},
                        tag \in {"section", "div"}, g \in BOOLEAN}

InitMark ==
    /\ htmlPages = 1
    /\ \E secs \in SeqsUpTo(ElemKinds, MaxElems) :
          StateAt("mark", <<"S1">>, [p \in Paths |-> Absent], {},
                  [NoDom EXCEPT !.sections = secs, !.css = TRUE])

NextMark == MarkSections

SpecMark == InitMark /\ [][NextMark]_vars

\* the card-expansion evaluate on every inline script of up to MaxLen
\* characters, alone or after another inline script
LeadScripts == { <<"D">>, <<"D", "{">>, <<"D", "{", "}">> }

ScriptLists ==
    {<<t>> : t \in SeqsUpTo(Alphabet, MaxLen)}
        \cup {<<l, t>> : l \in LeadScripts, t \in SeqsUpTo(Alphabet, MaxLen)}

CardLists ==
    { << Card(TRUE, <<" ", "a">>, TRUE), Card(TRUE, <<"b">>, TRUE) >>,
      << Card(TRUE, <<"a">>, FALSE), Card(FALSE, <<>>, TRUE) >> }

InitExpand ==
    /\ htmlPages = 1
    /\ \E ss \in ScriptLists, cs \in CardLists, refs \in {<<>>, <<"RFP 1">>} :
          StateAt("expand", <<"S1">>, [p \in Paths |-> Absent], {},
                  [NoDom EXCEPT !.scripts = ss, !.cards = cs,
                                !.table = TableA(refs), !.css = TRUE])

NextExpand == ExpandPortfolio

SpecExpand == InitExpand /\ [][NextExpand]_vars

\* the card-expansion evaluate on every list of up to MaxCards cards, with a
\* script whose literal evaluates and with one whose literal does not
CardKinds ==
    { Card(TRUE, <<" ", "a", " ">>, TRUE), Card(TRUE, <<"a">>, FALSE),
      Card(TRUE, <<"b">>, TRUE), Card(TRUE, <<"constructor">>, TRUE),
      Card(FALSE, <<>>, TRUE) }

InitCards ==
    /\ htmlPages = 1
    /\ \E ss \in { << <<"D", "{", "}">> >>, << <<"D", "{", "q", "}">> >> },
          cs \in SeqsUpTo(CardKinds, MaxCards), refs \in {<<>>, <<"RFP 1">>} :
          StateAt("expand", <<"S1">>, [p \in Paths |-> Absent], {},
                  [NoDom EXCEPT !.scripts = ss, !.cards = cs,
                                !.table = TableA(refs), !.css = TRUE])

NextCards == ExpandPortfolio

SpecCards == InitCards /\ [][NextCards]_vars

\* ================================================================== claims
Range(q) == {q[k] : k \in 1..Len(q)}

\* the markers of a run in which every stage completes
StageMarkers == <<"S1", "E1", "S2", "E2", "S3", "E3">>

Printed(j) == SubSeq(StageMarkers, 1, j)

\* C1: in every run the stages execute strictly in the order render,
\* footer, rasterize: what a run has printed is always a prefix of
\* start-1, end-1, start-2, end-2, start-3, end-3 (so a stage starts only
\* after the previous one ended, no two overlap, none runs twice), a failure
\* is the last thing a run prints (no later stage starts after it), and a
\* run is failed exactly when it printed one.
C1_StagesInOrder ==
    /\ \E j \in 0..Len(StageMarkers) :
          \/ log = Printed(j)
          \/ log = Printed(j) \o <<"error">>
    /\ (status = "failed") <=> ("error" \in Range(log))
    /\ pc \in {"footer_loop", "footer_save", "footer_replace"}
          => log \in {Printed(3), Printed(3) \o <<"error">>}
    /\ pc \in {"shots_unlink", "shots_loop"} => log = Printed(5)
    /\ status = "done" => log = StageMarkers

\* a run went through all three stages; another one failed in Stage 2
C1_Witness == status = "done" /\ log = StageMarkers /\ run = 1

PageIds(pages) == [k \in 1..Len(pages) |-> pages[k].id]

\* C2: the footer stage preserves the page count: once add_branded_footer
\* has completed in a run, the PDF at the output path holds exactly the
\* pages Stage 1 printed, in their order, and the count Stage 3 reads is
\* that same number.
C2_PageCountPreserved ==
    /\ "E2" \in Range(log)
          => /\ fs[PdfPath].state = "complete"
             /\ PageIds(fs[PdfPath].pages) = [k \in 1..htmlPages |-> k]
    /\ pc = "shots_loop" /\ status = "running" => count = htmlPages

C2_Witness ==
    /\ pc = "shots_loop" /\ status = "running"
    /\ htmlPages = 2
    /\ count = 2
    /\ Len(fs[PdfPath].pages) = 2

FooterStage == {"footer_loop", "footer_save", "footer_replace"}

Unfootered == Complete(RenderedPages(htmlPages))
Footered == Complete(FooteredPages(htmlPages))

\* the only step of the footer stage that changes the file at the output path
\* is the move of a complete footered '<path>.tmp' over it
FooterWritesByReplace ==
    pc \in FooterStage /\ fs'[PdfPath] # fs[PdfPath]
        => (fs["tmp"] = Footered /\ fs'[PdfPath] = fs["tmp"] /\ fs'["tmp"] = Absent)

\* C3: during the footer stage - running, failed or killed at any of its
\* steps - the file at the output path is the complete un-footered Stage 1
\* PDF or the complete footered PDF, never a partial file; and the only step
\* of the stage that changes that file finds the complete footered document
\* in '<path>.tmp' and moves it over the output path, leaving no '.tmp'.
C3_AtomicFooterWrite ==
    /\ [](pc \in FooterStage => fs[PdfPath] \in {Unfootered, Footered})
    /\ [][FooterWritesByReplace]_vars

\* killed in the middle of doc.save: a partial '.tmp', the PDF untouched
C3_Witness ==
    /\ status = "killed"
    /\ pc = "footer_save"
    /\ fs["tmp"] = Partial
    /\ fs[PdfPath] = Unfootered

\* something the DOM steps look for is not in the document: one of the eight
\* section ids, the portfolioData script, or a sub-element of a card
MissingDom(h) ==
    \/ \E id \in {"approach", "ia", "seo", "considerations", "scope", "effort",
                  "company", "next-steps"} :
          \A k \in 1..Len(h.sections) : h.sections[k].id # id
    \/ \A j \in 1..Len(h.scripts) :
          \A p \in 1..Len(h.scripts[j]) - 1 :
             ~(h.scripts[j][p] = "D" /\ h.scripts[j][p + 1] = "{")
    \/ \E k \in 1..Len(h.cards) : ~h.cards[k].nameEl \/ ~h.cards[k].infoEl

\* positions of generate_pdf before page.pdf is called
BeforeRender == {"start", "goto", "prepare", "mark", "expand"}

\* C4 as stated: a missing input file, a navigation timeout and missing DOM
\* elements each end the run with an uncaught failure before any PDF is
\* produced.
C4_AllFailuresTerminate ==
    ~htmlExists \/ navTimesOut \/ MissingDom(html)
        => /\ pc \in BeforeRender
           /\ fs[PdfPath] = Absent
           /\ status # "done"

\* C4, amended: a missing input file and a navigation timeout end the run
\* with an uncaught failure at page.goto, before any PDF is written; missing
\* DOM elements raise nothing: no run fails in the DOM steps, the only
\* failures are the one at page.goto (exactly for those two causes) and an
\* I/O failure of doc.save.
C4_LoadFailuresTerminate ==
    /\ ~htmlExists \/ navTimesOut
          => /\ pc \in {"start", "goto"}
             /\ fs[PdfPath] = Absent
             /\ status # "done"
             /\ pc = "goto" => status # "running" \/ log = <<"S1">>
    /\ status = "failed" => pc \in {"goto", "footer_save"}
    /\ status = "failed" /\ pc = "goto" => ~htmlExists \/ navTimesOut
    /\ htmlExists /\ ~navTimesOut /\ pc \in BeforeRender => status # "failed"

\* the navigation timed out on a file that exists: the run failed at goto
C4_Witness ==
    /\ htmlExists /\ navTimesOut
    /\ status = "failed"
    /\ pc = "goto"
    /\ log = <<"S1", "error">>
    /\ fs[PdfPath] = Absent

IsDigit(c) == c \in {"0", "1", "2", "3", "4", "5", "6", "7", "8", "9"}

DigitValue(c) ==
    CASE c = "0" -> 0 [] c = "1" -> 1 [] c = "2" -> 2 [] c = "3" -> 3
      [] c = "4" -> 4 [] c = "5" -> 5 [] c = "6" -> 6 [] c = "7" -> 7
      [] c = "8" -> 8 [] c = "9" -> 9

\* the number a sequence of digits denotes
RECURSIVE NumberOf(_)
NumberOf(ds) ==
    IF ds = <<>> THEN 0
    ELSE 10 * NumberOf(SubSeq(ds, 1, Len(ds) - 1)) + DigitValue(ds[Len(ds)])

\* name is page_<digits>.png
IsPageFile(name) ==
    /\ Len(name) >= 10
    /\ SubSeq(name, 1, 5) = <<"p", "a", "g", "e", "_">>
    /\ SubSeq(name, Len(name) - 3, Len(name)) = <<".", "p", "n", "g">>

\* name has the shape page_*.png
IsShotFile(name) ==
    /\ Len(name) >= 9
    /\ SubSeq(name, 1, 5) = <<"p", "a", "g", "e", "_">>
    /\ SubSeq(name, Len(name) - 3, Len(name)) = <<".", "p", "n", "g">>

ShotNumberText(name) == SubSeq(name, 6, Len(name) - 4)

\* name is the screenshot of page k: page_, k in decimal zero-padded to two
\* digits and no further, .png
IsShotOfPage(name, k) ==
    LET ds == ShotNumberText(name)
    IN  /\ IsPageFile(name)
        /\ \A j \in 1..Len(ds) : IsDigit(ds[j])
        /\ Len(ds) >= 2
        /\ Len(ds) > 2 => ds[1] # "0"
        /\ NumberOf(ds) = k

\* the page_*.png files among names are one per page 1..n, and nothing else
ExactlyShotsOf(names, n) ==
    LET shots == {f \in names : IsShotFile(f)}
    IN  /\ \A f \in shots : \E k \in 1..n : IsShotOfPage(f, k)
        /\ \A k \in 1..n : Cardinality({f \in shots : IsShotOfPage(f, k)}) = 1

OtherFilesUntouched ==
    {f \in dir' : ~IsShotFile(f)} = {f \in dir : ~IsShotFile(f)}

\* C5: after screenshot_pages has completed on a PDF of N pages, the files
\* page_*.png in the directory are exactly page_01.png .. page_N.png, one per
\* page, whatever page_*.png files were there before; and no step of it adds
\* or removes a file that is not page_*.png.
C5_ExactlyNScreenshots ==
    /\ [](pc = "final" => ExactlyShotsOf(dir, Len(fs[PdfPath].pages)))
    /\ [][OtherFilesUntouched]_vars

\* a hundred-page PDF was rasterized into a directory holding other files
C5_Witness ==
    /\ pc = "final"
    /\ Len(fs[PdfPath].pages) = 100
    /\ Cardinality({f \in dir : IsShotFile(f)}) = 100
    /\ <<"p", "a", "g", "e", "_", "1", "0", "0", ".", "p", "n", "g">> \in dir
    /\ <<"p", "a", "g", "e", "_", "1", "0", ".", "p", "n", "g">> \in dir
    /\ <<"p", "a", "g", "e", "_", "0", "9", ".", "p", "n", "g">> \in dir
    /\ <<"n", "o", "t", "e", "s", ".", "t", "x", "t">> \in dir
    /\ <<"p", "a", "g", "e", "_", "0", "7", ".", "p", "n", "g">> \in dir

Drawn(page, kind) ==
    Cardinality({j \in 1..Len(page.ops) : page.ops[j].op = kind})

\* the loop of add_branded_footer has visited exactly the first i pages
\* of doc, each once
VisitedOnce(rects, texts) ==
    \A k \in 1..Len(doc) :
        /\ Drawn(doc[k], "rect") = (IF k <= i THEN rects ELSE 0)
        /\ Drawn(doc[k], "text") = (IF k <= i THEN texts ELSE 0)

\* the saved document carries the given numbers of drawings on every page
FooterOnEveryPage(rects, texts) ==
    /\ Len(fs[PdfPath].pages) = htmlPages
    /\ \A k \in 1..htmlPages :
          /\ Drawn(fs[PdfPath].pages[k], "rect") = rects
          /\ Drawn(fs[PdfPath].pages[k], "text") = texts

\* C6 as stated: the footer stage draws exactly one rectangle and exactly
\* two text runs on every page, visiting every page index 0..N-1 once.
C6_OneRectTwoTexts ==
    /\ pc = "footer_loop" => VisitedOnce(1, 2)
    /\ pc = "shots" => FooterOnEveryPage(1, 2)

\* C6, amended: the footer stage draws exactly one rectangle and exactly
\* three text runs on every page (the left text, and the right text as two
\* runs: the version prefix and the page label), visiting every page index
\* 0..N-1 exactly once.
C6_OneRectThreeTexts ==
    /\ pc = "footer_loop" => VisitedOnce(1, 3)
    /\ pc = "shots" => FooterOnEveryPage(1, 3)

\* the footer stage completed on a document of several pages
C6_Witness ==
    /\ pc = "shots"
    /\ htmlPages = 3
    /\ FooterOnEveryPage(1, 3)

\* text is "Page <k> of <n>", both numbers in decimal without padding
IsLabel(text, k, n) ==
    \E a \in 1..3, b \in 1..3 :
        LET ka == SubSeq(text, 6, 5 + a)
            nb == SubSeq(text, 10 + a, 9 + a + b)
        IN  /\ Len(text) = 9 + a + b
            /\ SubSeq(text, 1, 5) = <<"P", "a", "g", "e", " ">>
            /\ SubSeq(text, 6 + a, 9 + a) = <<" ", "o", "f", " ">>
            /\ \A j \in 1..a : IsDigit(ka[j])
            /\ \A j \in 1..b : IsDigit(nb[j])
            /\ ka[1] # "0" /\ nb[1] # "0"
            /\ NumberOf(ka) = k
            /\ NumberOf(nb) = n

\* the text runs of a page that start with "Page "
LabelsOn(page) ==
    {j \in 1..Len(page.ops) :
        /\ page.ops[j].op = "text"
        /\ Len(page.ops[j].text) >= 5
        /\ SubSeq(page.ops[j].text, 1, 5) = <<"P", "a", "g", "e", " ">>}

HasLabel(page, k, n) == \E j \in LabelsOn(page) : IsLabel(page.ops[j].text, k, n)

\* C8: in add_branded_footer on a document of N pages the page at 0-based
\* position i receives the label 'Page i+1 of N', N being the page count
\* read before the loop: every page carries one label, the page at position
\* k (1-based) carries 'Page k of N', and each of 'Page 1 of N' ..
\* 'Page N of N' is on exactly one page.
C8_PageLabels ==
    /\ pc = "footer_loop" => total = htmlPages
    /\ pc = "shots" =>
          LET pages == fs[PdfPath].pages
          IN  /\ Len(pages) = htmlPages
              /\ \A k \in 1..htmlPages :
                    /\ Cardinality(LabelsOn(pages[k])) = 1
                    /\ HasLabel(pages[k], k, htmlPages)
                    /\ Cardinality({p \in 1..htmlPages :
                                       HasLabel(pages[p], k, htmlPages)}) = 1

\* an eleven-page document: 'Page 10 of 11' is on the tenth page
C8_Witness ==
    /\ pc = "shots"
    /\ htmlPages = 11
    /\ \E j \in 1..4 :
          fs[PdfPath].pages[10].ops[j].text =
             <<"P", "a", "g", "e", " ", "1", "0", " ", "o", "f", " ", "1", "1">>

\* C7: the flow is restartable: whenever a run completes - the first run, or
\* a re-run after a run that was killed or failed at any step - the state
\* is that of an uninterrupted run: the output PDF is the complete document
\* with exactly one footer on every page, there is no '.tmp' file, and the
\* page_*.png files are exactly one per page, with no stale one left.
C7_Restartable ==
    status = "done"
        => /\ fs[PdfPath] = Footered
           /\ FooterOnEveryPage(1, 3)
           /\ fs["tmp"] = Absent
           /\ ExactlyShotsOf(dir, htmlPages)
           /\ {f \in dir : ~IsShotFile(f)} \subseteq InitialNames

\* a re-run completed after the first run was cut short
C7_Witness ==
    /\ status = "done"
    /\ run = 2
    /\ htmlPages = 2
    /\ fs["tmp"] = Absent

FirstGradientSection(secs, k) ==
    /\ secs[k].tag = "section" /\ secs[k].gradient
    /\ \A j \in 1..(k - 1) : ~(secs[j].tag = "section" /\ secs[j].gradient)

IsMarked(el) == "pdf-section-break" \in el.classes

\* C9: page-break marking touches only major sections: after the marking
\* step an element carries 'pdf-section-break' only if its id is one of the
\* eight listed ids or it is the first section whose style contains
\* 'linear-gradient'; listed ids absent from the document are skipped (the
\* step completes, and changes nothing but classes); and the returned count
\* is the number of distinct elements marked.
C9_OnlyMajorSectionsMarked ==
    pc = "expand" =>
        /\ Len(dom.sections) = Len(html.sections)
        /\ \A k \in 1..Len(dom.sections) :
              /\ [dom.sections[k] EXCEPT !.classes = {}] = html.sections[k]
              /\ IsMarked(dom.sections[k]) =>
                    \/ dom.sections[k].id \in
                          {"approach", "ia", "seo", "considerations", "scope",
                           "effort", "company", "next-steps"}
                    \/ FirstGradientSection(html.sections, k)
        /\ marked = Cardinality({k \in 1..Len(dom.sections) :
                                    IsMarked(dom.sections[k])})
        /\ status = "running"

\* the gradient section is the next-steps section: marked, and counted once
C9_Witness ==
    /\ pc = "expand"
    /\ Len(dom.sections) = 2
    /\ dom.sections[1].id = "hero" /\ ~IsMarked(dom.sections[1])
    /\ dom.sections[2].id = "next-steps"
    /\ dom.sections[2].tag = "section" /\ dom.sections[2].gradient
    /\ IsMarked(dom.sections[2])
    /\ marked = 1

\* t contains 'const portfolioData = {'
HasMarker(t) == \E p \in 1..(Len(t) - 1) : t[p] = "D" /\ t[p + 1] = "{"

\* the position of the opening brace of the first 'const portfolioData = {'
OpeningBrace(t) ==
    1 + CHOOSE p \in 1..(Len(t) - 1) :
            /\ t[p] = "D" /\ t[p + 1] = "{"
            /\ \A q \in 1..(p - 1) : ~(t[q] = "D" /\ t[q + 1] = "{")

\* the number of "{" minus the number of "}" in t[s..p]
RunningCount(t, s, p) ==
    Cardinality({q \in s..p : t[q] = "{"}) - Cardinality({q \in s..p : t[q] = "}"})

\* the positions from s on at which the running count is zero
Returns(t, s) == {p \in s..Len(t) : RunningCount(t, s, p) = 0}

FirstReturn(t, s) == CHOOSE p \in Returns(t, s) : \A q \in Returns(t, s) : p <= q

\* the end of the object literal that opens at t[s], as JavaScript reads it
\* (braces inside string literals do not count); 0 if it is never closed
RECURSIVE LiteralEnd(_, _, _, _)
LiteralEnd(t, p, depth, inStr) ==
    IF p > Len(t) THEN 0
    ELSE IF inStr THEN LiteralEnd(t, p + 1, depth, t[p] # "q")
    ELSE IF t[p] = "q" THEN LiteralEnd(t, p + 1, depth, TRUE)
    ELSE IF t[p] = "{" THEN LiteralEnd(t, p + 1, depth + 1, FALSE)
    ELSE IF t[p] = "}" /\ depth = 1 THEN p
    ELSE IF t[p] = "}" THEN LiteralEnd(t, p + 1, depth - 1, FALSE)
    ELSE LiteralEnd(t, p + 1, depth, FALSE)

\* what the claim says of the script t the extraction is applied to
ExtractionOn(t) ==
    LET s == OpeningBrace(t)
        never == Returns(t, s) = {}
        e == FirstReturn(t, s)
        w == LiteralEnd(t, s + 1, 1, FALSE)
    IN  /\ ~never => ObjStr(t) = SubSeq(t, s, e)
        /\ ~never /\ EvalOk(SubSeq(t, s, e)) => w = e
        /\ w # 0 /\ Returns(t, s) # {} /\ FirstReturn(t, s) = w
              => ObjStr(t) = SubSeq(t, s, w)
        /\ never \/ ~EvalOk(SubSeq(t, s, e))
              => /\ ExtractPortfolioData(html.scripts, html.table, 1).null
                 /\ expanded = 0
                 /\ dom.cards = html.cards

\* C10: the brace-counting extraction, applied to the first inline script
\* containing 'const portfolioData = {', selects the substring from that
\* opening brace to the closing brace at which the running count of '{'
\* minus '}' first returns to zero; when that substring is an object literal
\* it is the whole literal (and a brace-balanced literal is selected whole);
\* when the count never returns to zero or the substring does not evaluate,
\* the table stays null and the expansion step returns 0 and leaves every
\* card as it was.
C10_BraceCountingExtraction ==
    pc = "render" =>
        \A j \in 1..Len(html.scripts) :
            /\ HasMarker(html.scripts[j])
            /\ \A k \in 1..(j - 1) : ~HasMarker(html.scripts[k])
            => ExtractionOn(html.scripts[j])

\* a nested literal followed by more script: selected whole, a card expanded
C10_Witness ==
    /\ pc = "render"
    /\ html.scripts = << <<"D", "{", "{", "}", "}", "D">> >>
    /\ ObjStr(html.scripts[1]) = <<"{", "{", "}", "}">>
    /\ expanded = 1
    /\ dom.cards # html.cards

\* the text without its leading and trailing spaces
Trimmed(t) ==
    LET inked == {p \in 1..Len(t) : t[p] # " "}
    IN  IF inked = {} THEN <<>>
        ELSE SubSeq(t, CHOOSE p \in inked : \A q \in inked : p <= q,
                       CHOOSE p \in inked : \A q \in inked : p >= q)

\* the step appended a narrative, the relevance label and a relevance text
\* to the card's .portfolio-info
ReceivedNarrative(before, after) ==
    /\ Len(after.info) >= Len(before.info) + 3
    /\ after.info[Len(before.info) + 1].className = "pdf-narrative"
    /\ after.info[Len(before.info) + 2].className = "pdf-relevance-label"
    /\ after.info[Len(before.info) + 3].className = "pdf-relevance"

\* C11: in the portfolio card expansion step a card is modified only if it
\* has a .portfolio-name element whose trimmed text is a key of the
\* extracted lookup table; the returned count is the number of cards that
\* received the appended narrative, relevance label and relevance text; and
\* every card carrying class 'pdf-expanded' after the step is one of those
\* counted cards.
C11_ExpandedCardsAreCounted ==
    pc = "render" =>
        /\ Len(dom.cards) = Len(html.cards)
        /\ \A k \in 1..Len(dom.cards) :
              dom.cards[k] # html.cards[k]
                 => /\ html.cards[k].nameEl
                    /\ ~ExtractPortfolioData(html.scripts, html.table, 1).null
                    /\ Trimmed(html.cards[k].name) \in DOMAIN html.table
        /\ expanded = Cardinality({k \in 1..Len(dom.cards) :
                                      ReceivedNarrative(html.cards[k], dom.cards[k])})
        /\ \A k \in 1..Len(dom.cards) :
              "pdf-expanded" \in dom.cards[k].classes
                 => ReceivedNarrative(html.cards[k], dom.cards[k])

====
